---- MODULE Spec2Model ----
(***************************************************************************)
(* Kokoro TTS proxy (src/kokoro_proxy.py): the instance registry, the      *)
(* credential rotation, the single-flight launch with its failover, the    *)
(* keep-alive threads, the history file and the request router, as a       *)
(* state machine.  Request threads and keep-alive threads interleave at    *)
(* the statements that read or write the module's global state.            *)
(***************************************************************************)
EXTENDS Integers, Sequences, FiniteSets, TLC

(* ------------------------------ bounds --------------------------------- *)
\* request-handling threads that can be inside the proxy at the same time
NumThreads == 2
\* instances ever created (uuid values drawn) under Spec and SpecConcurrent
MaxInstances == 2
\* instances ever created under SpecLaunch; caps the failover recursion
MaxLaunches == 3
\* ticks of the wall clock, each of TickHours hours
MaxTicks == 1
\* process restarts (main() runs again on the history file left behind)
MaxRestarts == 1
\* select_google_account calls made beyond one full period in SpecRot
RotExtra == 1

(* --------------------------- program constants ------------------------- *)
MAX_INSTANCE_AGE_HOURS == 8

\* one clock tick: long enough to take an instance past the maximum age
TickHours == MAX_INSTANCE_AGE_HOURS + 1
MaxClock == MaxTicks * TickHours

\* Python's None, for string-valued fields
None == "None"

Threads == 1..NumThreads

\* registry positions
Positions == 1..(IF MaxLaunches > MaxInstances THEN MaxLaunches ELSE MaxInstances)

\* entries of config.GOOGLE_ACCOUNTS: dicts with name and email (the password
\* is never read by the orchestration)
AccountA == [name |-> "A", email |-> "a@mail"]
AccountB == [name |-> "B", email |-> "b@mail"]
AccountC == [name |-> "C", email |-> "c@mail"]
\* "no account": the None of `account = None` and of currently_used_account
NoAccount == [name |-> None, email |-> None]
AccountPool == {AccountA, AccountB, AccountC}

\* the configurations of config.GOOGLE_ACCOUNTS the model runs with
Configs == {<<>>, <<AccountA>>, <<AccountA, AccountB>>,
            <<AccountA, AccountB, AccountC>>}

\* the tunnel address the notebook of the k-th created instance prints
EndpointNames == <<"http://backend-1", "http://backend-2", "http://backend-3",
                   "http://backend-4", "http://backend-5", "http://backend-6">>
Endpoint(k) == EndpointNames[k]

VARIABLES
  GOOGLE_ACCOUNTS,          \* config.GOOGLE_ACCOUNTS
  active_instances,         \* the registry: sequence of ColabInstance
  is_launching,             \* the single-flight flag
  currently_used_account,   \* the rotation cursor
  history_file,             \* content of HISTORY_FILE: sequence of dicts
  now,                      \* datetime.now(), in hours
  up,                       \* endpoints that answer GET /v1/audio/voices with 200
  next_id,                  \* the next uuid4 value
  phase,                    \* "boot" (main() not yet run) or "serving"
  restarts,                 \* process restarts so far
  pc,                       \* per thread: where it is
  route,                    \* per thread: the route being served
  google_account_name,      \* per thread: argument of launch_colab_automated
  instance,                 \* per thread: the attempt's instance (registry index, 0: none)
  new_instance,             \* per thread: ColabInstance() built, not yet appended
  account,                  \* per thread: the attempt's account
  result,                   \* per thread: what get_or_create_instance returned (0: None)
  tried,                    \* per thread: accounts used by the attempts of this top-level call
  forwards,                 \* per thread: endpoints this request was forwarded to
  response,                 \* per thread: the response given to the client
  keep_alive,               \* per registry index: the keep_colab_alive thread
  rot_out,                  \* SpecRot: the accounts select_google_account returned
  pending,                  \* per writer: the save_history call it is inside of
  relay,                    \* one proxied request: what came in, went out, came back
  probe                     \* one is_active() call: the URL, the GETs sent, the result

gvars == <<GOOGLE_ACCOUNTS, active_instances, is_launching, currently_used_account,
           history_file, now, up, next_id, phase, restarts>>
tvars == <<pc, route, google_account_name, instance, new_instance, account, result,
           tried, forwards, response>>
vars == <<gvars, tvars, keep_alive, rot_out, pending, relay, probe>>

(* ------------------------------ ColabInstance --------------------------- *)
NoInstance == [id |-> 0, cloudflare_url |-> None, created_at |-> 0,
               last_used_at |-> 0, status |-> None, google_account |-> None]

\* ColabInstance.__init__
ColabInstance(uuid, cloudflare_url, t) ==
  [id |-> uuid, cloudflare_url |-> cloudflare_url, created_at |-> t,
   last_used_at |-> t,
   status |-> IF cloudflare_url = None THEN "initializing" ELSE "active",
   google_account |-> None]

age_hours(inst, t) == t - inst.created_at

is_expired(inst, t) == age_hours(inst, t) > MAX_INSTANCE_AGE_HOURS

\* ColabInstance.is_active: one GET of the voices path, 200 or not
is_active(inst, responsive) ==
  IF inst.cloudflare_url = None THEN FALSE
  ELSE inst.cloudflare_url \in responsive

\* datetime.isoformat / datetime.fromisoformat: the timestamp as a string
isoformat(t) == <<"T", t>>
fromisoformat(s) == s[2]

\* ColabInstance.to_dict, less its "age_hours" entry, which load_history
\* never reads back
to_dict(inst, t) ==
  [id |-> inst.id, cloudflare_url |-> inst.cloudflare_url,
   created_at |-> isoformat(inst.created_at),
   last_used_at |-> isoformat(inst.last_used_at),
   status |-> inst.status,
   google_account |-> inst.google_account]

\* the file save_history(instances) writes at time t
save_history(instances, t) == [i \in 1..Len(instances) |-> to_dict(instances[i], t)]

\* load_history's loop with the stored fields left out: what the
\* constructor alone gives
from_dict_constructed(d, t) == ColabInstance(d.id, d.cloudflare_url, t)

\* one entry of load_history's loop: the constructor, then the stored fields
from_dict(d, t) ==
  [ColabInstance(0, d.cloudflare_url, t) EXCEPT
     !.id = d.id,
     !.created_at = fromisoformat(d.created_at),
     !.last_used_at = fromisoformat(d.last_used_at),
     !.status = d.status,
     !.google_account = d.google_account]

\* load_history(): a missing file and a file with no instances both give []
load_history(file, t) == [i \in 1..Len(file) |-> from_dict(file[i], t)]

(* ------------------------- save_history, as steps ----------------------- *)
\* the threads that call save_history while the proxy serves: a thread in
\* launch_colab_automated, a keep-alive thread
LaunchWriter(t) == <<"launch", t>>
KeepAliveWriter(i) == <<"keep_alive", i>>
Writers == {LaunchWriter(t) : t \in Threads} \cup {KeepAliveWriter(i) : i \in Positions}

\* not inside save_history
NoWrite == [waiting |-> FALSE, data |-> <<>>]

\* save_history(active_instances) called by writer w after the assignments
\* of the step.  Taken whole (atomic), the file holds the new content.
\* Taken as the statements run, open(HISTORY_FILE, 'w') empties the file and
\* the list of to_dict() results is built; json.dump and the close of the
\* file come as a later step, CloseHistory.
SaveHistory(w, atomic) ==
  IF atomic
  THEN /\ history_file' = save_history(active_instances', now)
       /\ UNCHANGED <<pending, relay, probe>>
  ELSE /\ history_file' = <<>>
       /\ pending' = [pending EXCEPT ![w] =
                        [waiting |-> TRUE,
                         data |-> save_history(active_instances', now)]]
       /\ UNCHANGED <<relay, probe>>

\* json.dump into the file and its close: the file holds what w's list was
CloseHistory(w) ==
  /\ pending[w].waiting
  /\ history_file' = pending[w].data
  /\ pending' = [pending EXCEPT ![w] = NoWrite]
  /\ UNCHANGED <<GOOGLE_ACCOUNTS, active_instances, is_launching,
                 currently_used_account, now, up, next_id, phase, restarts,
                 tvars, keep_alive, rot_out, relay, probe>>

(* --------------------------- select_google_account ---------------------- *)
RECURSIVE IndexOfEmail(_, _, _)
\* the enumerate loop: index of the first account with that email, 0 if none
IndexOfEmail(available_accounts, email, i) ==
  IF i > Len(available_accounts) THEN 0
  ELSE IF available_accounts[i].email = email THEN i
  ELSE IndexOfEmail(available_accounts, email, i + 1)

\* select_google_account with the wrap-around test off by one: the last
\* account of the list is never reached
select_google_account_short(available_accounts, cursor) ==
  IF available_accounts = <<>> THEN NoAccount
  ELSE IF cursor = NoAccount THEN available_accounts[1]
  ELSE LET current_index == IndexOfEmail(available_accounts, cursor.email, 1)
       IN IF current_index >= 1 /\ current_index < Len(available_accounts) - 1
          THEN available_accounts[current_index + 1]
          ELSE available_accounts[1]

\* the account select_google_account returns (NoAccount for None)
select_google_account(available_accounts, cursor) ==
  IF available_accounts = <<>> THEN NoAccount
  ELSE IF cursor = NoAccount THEN available_accounts[1]
  ELSE LET current_index == IndexOfEmail(available_accounts, cursor.email, 1)
       IN IF current_index >= 1 /\ current_index < Len(available_accounts)
          THEN available_accounts[current_index + 1]
          ELSE available_accounts[1]

\* select_google_account without the assignment to currently_used_account
cursor_after_unassigned(available_accounts, cursor) == cursor

\* the cursor after select_google_account: unchanged on the early return
cursor_after(available_accounts, cursor) ==
  IF available_accounts = <<>> THEN cursor
  ELSE select_google_account(available_accounts, cursor)

(* ------------------------------ find_active_instance -------------------- *)
\* find_active_instance that accepts stored-active instances only when they
\* are not the first of the registry
find_active_instance_skipping(instances, responsive) ==
  LET hits == {i \in 2..Len(instances) : is_active(instances[i], responsive)}
  IN IF hits = {} THEN 0 ELSE CHOOSE i \in hits : \A j \in hits : i <= j

\* find_active_instance keeping the last responsive instance instead of
\* returning at the first
find_active_instance_last(instances, responsive) ==
  LET hits == {i \in 1..Len(instances) : is_active(instances[i], responsive)}
  IN IF hits = {} THEN 0 ELSE CHOOSE i \in hits : \A j \in hits : i >= j

\* index of the first instance whose is_active() is true, 0 if none
find_active_instance(instances, responsive) ==
  LET hits == {i \in 1..Len(instances) : is_active(instances[i], responsive)}
  IN IF hits = {} THEN 0 ELSE CHOOSE i \in hits : \A j \in hits : i <= j

\* update_last_used that also marks the instance active
update_last_used_reviving(instances, i, t) ==
  [instances EXCEPT ![i].last_used_at = t, ![i].status = "active"]

\* update_last_used on instance i
update_last_used(instances, i, t) == [instances EXCEPT ![i].last_used_at = t]

(* ------------------------- the HTTP exchanges --------------------------- *)
\* an HTTP response: requests' status_code, headers.get('Content-Type') (None
\* when the header is missing) and content
NoAnswer == [status_code |-> 0, content_type |-> None, content |-> ""]

\* an outgoing requests call
NoRequest == [method |-> None, url |-> <<None, None>>, headers |-> {}, data |-> ""]

NoRelay == [stage |-> "none", route |-> None, headers |-> {}, data |-> "",
            sent |-> NoRequest, raised |-> FALSE, answer |-> NoAnswer,
            reply |-> NoAnswer]

NoProbe == [cloudflare_url |-> None, calls |-> <<>>]

\* proxy_speech: requests.post(f"{instance.cloudflare_url}/v1/audio/speech",
\* headers = the request's headers but 'Host', data = request.get_data())
speech_request(cloudflare_url, headers, data) ==
  [method |-> "POST", url |-> <<cloudflare_url, "/v1/audio/speech">>,
   headers |-> {h \in headers : h[1] # "Host"}, data |-> data]

\* proxy_voices: requests.get(f"{instance.cloudflare_url}/v1/audio/voices")
voices_request(cloudflare_url, headers, data) ==
  [method |-> "GET", url |-> <<cloudflare_url, "/v1/audio/voices">>,
   headers |-> {}, data |-> ""]

\* Response(response.content, status=response.status_code,
\* content_type=response.headers.get('Content-Type', default))
relay_response(answer, default) ==
  [status_code |-> answer.status_code,
   content_type |-> IF answer.content_type = None THEN default
                    ELSE answer.content_type,
   content |-> answer.content]

\* proxy_speech's Response
speech_response(answer) == relay_response(answer, "application/octet-stream")

\* proxy_voices' Response
voices_response(answer) == relay_response(answer, "application/json")

\* the handlers' `except requests.RequestException`: jsonify({"error": ...}), 500
error_response ==
  [status_code |-> 500, content_type |-> "application/json",
   content |-> "Error communicating with TTS service"]

\* is_active() taking every response for a healthy one, whatever its status
is_active_call_lenient(cloudflare_url, outcome) ==
  IF cloudflare_url \in {None, ""}
  THEN [sent |-> <<>>, result |-> FALSE]
  ELSE [sent |-> <<[method |-> "GET",
                    url |-> <<cloudflare_url, "/v1/audio/voices">>,
                    headers |-> {}, data |-> ""]>>,
        result |-> outcome.raises = None]

\* ColabInstance.is_active as the code runs it: no URL, no request and False;
\* otherwise one requests.get of the voices path, True if it answers 200,
\* False if it answers anything else or raises requests.RequestException
is_active_call(cloudflare_url, outcome) ==
  IF cloudflare_url \in {None, ""}
  THEN [sent |-> <<>>, result |-> FALSE]
  ELSE [sent |-> <<[method |-> "GET",
                    url |-> <<cloudflare_url, "/v1/audio/voices">>,
                    headers |-> {}, data |-> ""]>>,
        result |-> outcome.raises = None /\ outcome.status_code = 200]

(* ------------------------------- Init ----------------------------------- *)
ThreadInit ==
  /\ pc = [t \in Threads |-> "idle"]
  /\ route = [t \in Threads |-> None]
  /\ google_account_name = [t \in Threads |-> None]
  /\ instance = [t \in Threads |-> 0]
  /\ new_instance = [t \in Threads |-> NoInstance]
  /\ account = [t \in Threads |-> NoAccount]
  /\ result = [t \in Threads |-> 0]
  /\ tried = [t \in Threads |-> <<>>]
  /\ forwards = [t \in Threads |-> <<>>]
  /\ response = [t \in Threads |-> None]

\* module globals as the import leaves them; no history file yet
Init ==
  /\ GOOGLE_ACCOUNTS \in Configs
  /\ active_instances = <<>>
  /\ is_launching = FALSE
  /\ currently_used_account = NoAccount
  /\ history_file = <<>>
  /\ now = 0
  /\ up = {}
  /\ next_id = 1
  /\ phase = "boot"
  /\ restarts = 0
  /\ ThreadInit
  /\ keep_alive = [i \in Positions |-> "none"]
  /\ rot_out = <<>>
  /\ pending = [w \in Writers |-> NoWrite]
  /\ relay = NoRelay
  /\ probe = NoProbe

(* ------------------------- process start and stop ----------------------- *)
\* the validation of main() without the age test
validate_unaged(inst, responsive, t) ==
  IF inst.status = "active" /\ is_active(inst, responsive)
  THEN inst
  ELSE [inst EXCEPT !.status = "inactive"]

\* main(), the validation loop: an instance stays as stored only if it is
\* stored active, answers the probe and is not expired
validate(inst, responsive, t) ==
  IF inst.status = "active" /\ is_active(inst, responsive) /\ ~is_expired(inst, t)
  THEN inst
  ELSE [inst EXCEPT !.status = "inactive"]

\* main() keeping only the instances that passed the validation
main_instances_pruned(file, responsive, t) ==
  LET loaded == load_history(file, t)
  IN SelectSeq([i \in 1..Len(loaded) |-> validate(loaded[i], responsive, t)],
               LAMBDA inst : inst.status = "active")

\* main() up to app.run: reload, validate
main_instances(file, responsive, t) ==
  LET loaded == load_history(file, t)
  IN [i \in 1..Len(loaded) |-> validate(loaded[i], responsive, t)]

\* main(): reload, validate, save, serve
Main ==
  /\ phase = "boot"
  /\ active_instances' = main_instances(history_file, up, now)
  /\ history_file' = save_history(active_instances', now)
  /\ phase' = "serving"
  /\ UNCHANGED <<GOOGLE_ACCOUNTS, is_launching, currently_used_account, now, up,
                 next_id, restarts, tvars, keep_alive, rot_out, pending, relay, probe>>

\* the process is stopped and started again: the globals are those of a fresh
\* import, every thread (daemon keep-alive threads included) is gone, the
\* history file stays
Restart ==
  /\ phase = "serving"
  /\ restarts < MaxRestarts
  /\ restarts' = restarts + 1
  /\ phase' = "boot"
  /\ active_instances' = <<>>
  /\ is_launching' = FALSE
  /\ currently_used_account' = NoAccount
  /\ pc' = [t \in Threads |-> "idle"]
  /\ route' = [t \in Threads |-> None]
  /\ google_account_name' = [t \in Threads |-> None]
  /\ instance' = [t \in Threads |-> 0]
  /\ new_instance' = [t \in Threads |-> NoInstance]
  /\ account' = [t \in Threads |-> NoAccount]
  /\ result' = [t \in Threads |-> 0]
  /\ tried' = [t \in Threads |-> <<>>]
  /\ forwards' = [t \in Threads |-> <<>>]
  /\ response' = [t \in Threads |-> None]
  /\ keep_alive' = [i \in Positions |-> "none"]
  /\ UNCHANGED <<GOOGLE_ACCOUNTS, history_file, now, up, next_id, rot_out, pending, relay, probe>>

(* ------------------------------ environment ----------------------------- *)
\* time passes
Tick ==
  /\ phase \in {"boot", "serving"}
  /\ now < MaxClock
  /\ now' = now + TickHours
  /\ UNCHANGED <<GOOGLE_ACCOUNTS, active_instances, is_launching,
                 currently_used_account, history_file, up, next_id, phase,
                 restarts, tvars, keep_alive, rot_out, pending, relay, probe>>

\* a backend (its Colab session, its tunnel) is gone: it no longer answers
BackendDown ==
  /\ \E u \in up : up' = up \ {u}
  /\ UNCHANGED <<GOOGLE_ACCOUNTS, active_instances, is_launching,
                 currently_used_account, history_file, now, next_id, phase,
                 restarts, tvars, keep_alive, rot_out, pending, relay, probe>>

(* ------------------------------- the routes ----------------------------- *)
\* the caller going on without an answer when no instance came back
Return_silent(t, r) ==
  /\ result' = [result EXCEPT ![t] = r]
  /\ pc' = [pc EXCEPT ![t] = IF route[t] # "launch" /\ r # 0 THEN "forward" ELSE "done"]
  /\ response' = [response EXCEPT ![t] = None]
  /\ instance' = [instance EXCEPT ![t] = 0]
  /\ account' = [account EXCEPT ![t] = NoAccount]
  /\ google_account_name' = [google_account_name EXCEPT ![t] = None]

\* what the caller of launch_colab_automated does with the value r it returns
\* (0: None): proxy_speech / proxy_voices go on to forward or answer 500, the
\* /launch thread ends
Return(t, r) ==
  /\ result' = [result EXCEPT ![t] = r]
  /\ pc' = [pc EXCEPT ![t] = IF route[t] # "launch" /\ r # 0 THEN "forward" ELSE "done"]
  /\ response' = [response EXCEPT ![t] =
                    IF route[t] # "launch" /\ r = 0 THEN "500 no instance" ELSE None]
  /\ instance' = [instance EXCEPT ![t] = 0]
  /\ account' = [account EXCEPT ![t] = NoAccount]
  /\ google_account_name' = [google_account_name EXCEPT ![t] = None]

\* A request for a proxied route arrives at thread t.  get_or_create_instance,
\* first half: find_active_instance() and, on a hit, update_last_used.
\* proxy_speech and proxy_voices take the same steps on the shared state.
FindActive(t) ==
  /\ phase = "serving" /\ pc[t] = "idle"
  /\ route' = [route EXCEPT ![t] = "proxy"]
  /\ LET i == find_active_instance(active_instances, up)
     IN IF i # 0
        THEN /\ active_instances' = update_last_used(active_instances, i, now)
             /\ result' = [result EXCEPT ![t] = i]
             /\ pc' = [pc EXCEPT ![t] = "forward"]
        ELSE /\ pc' = [pc EXCEPT ![t] = "history"]
             /\ UNCHANGED <<active_instances, result>>
  /\ UNCHANGED <<GOOGLE_ACCOUNTS, is_launching, currently_used_account,
                 history_file, now, up, next_id, phase, restarts,
                 google_account_name, instance, new_instance, account, tried,
                 forwards, response, keep_alive, rot_out, pending, relay, probe>>

\* POST /v1/audio/speech arrives: proxy_speech calls get_or_create_instance
ProxySpeech(t) == FindActive(t)

\* GET /v1/audio/voices arrives: proxy_voices calls get_or_create_instance
ProxyVoices(t) == FindActive(t)

\* GET /launch: a thread running launch_colab_automated() with no argument
LaunchNew(t) ==
  /\ phase = "serving" /\ pc[t] = "idle"
  /\ pc' = [pc EXCEPT ![t] = "gate"]
  /\ route' = [route EXCEPT ![t] = "launch"]
  /\ UNCHANGED <<gvars, google_account_name, instance, new_instance, account,
                 result, tried, forwards, response, keep_alive, rot_out, pending, relay, probe>>

\* the account names found in the history file
history_accounts(file, t) ==
  {load_history(file, t)[i].google_account : i \in 1..Len(file)} \ {None}

\* get_or_create_instance, second half: an account name out of the history
\* file (next(iter(set)): any element), then launch_colab_automated(name)
GetOrCreate(t) ==
  /\ pc[t] = "history"
  /\ LET accounts == history_accounts(history_file, now)
     IN \E selected \in (IF accounts = {} THEN {None} ELSE accounts) :
          google_account_name' = [google_account_name EXCEPT ![t] = selected]
  /\ pc' = [pc EXCEPT ![t] = "gate"]
  /\ UNCHANGED <<gvars, route, instance, new_instance, account, result, tried,
                 forwards, response, keep_alive, rot_out, pending, relay, probe>>

\* the forward tried again after requests raises
Forward_retrying(t) ==
  /\ pc[t] = "forward"
  /\ forwards' = [forwards EXCEPT ![t] =
                    Append(@, active_instances[result[t]].cloudflare_url)]
  /\ \/ /\ active_instances' = update_last_used(active_instances, result[t], now)
        /\ response' = [response EXCEPT ![t] = "relayed"]
        /\ pc' = [pc EXCEPT ![t] = "done"]
     \/ /\ response' = [response EXCEPT ![t] = None]
        /\ pc' = [pc EXCEPT ![t] = IF Len(forwards[t]) = 0 THEN "forward" ELSE "done"]
        /\ UNCHANGED active_instances
  /\ UNCHANGED <<GOOGLE_ACCOUNTS, is_launching, currently_used_account,
                 history_file, now, up, next_id, phase, restarts, route,
                 google_account_name, instance, new_instance, account, result,
                 tried, keep_alive, rot_out, pending, relay, probe>>

\* proxy_speech / proxy_voices: one request to the instance's endpoint; the
\* backend answers (update_last_used, relay), or requests raises
\* RequestException (500)
Forward(t) ==
  /\ pc[t] = "forward"
  /\ forwards' = [forwards EXCEPT ![t] =
                    Append(@, active_instances[result[t]].cloudflare_url)]
  /\ \/ /\ active_instances' = update_last_used(active_instances, result[t], now)
        /\ response' = [response EXCEPT ![t] = "relayed"]
     \/ /\ response' = [response EXCEPT ![t] = "500 forward failed"]
        /\ UNCHANGED active_instances
  /\ pc' = [pc EXCEPT ![t] = "done"]
  /\ UNCHANGED <<GOOGLE_ACCOUNTS, is_launching, currently_used_account,
                 history_file, now, up, next_id, phase, restarts, route,
                 google_account_name, instance, new_instance, account, result,
                 tried, keep_alive, rot_out, pending, relay, probe>>

\* the handler (or the /launch thread) has returned
Finish(t) ==
  /\ pc[t] = "done"
  /\ pc' = [pc EXCEPT ![t] = "idle"]
  /\ route' = [route EXCEPT ![t] = None]
  /\ result' = [result EXCEPT ![t] = 0]
  /\ tried' = [tried EXCEPT ![t] = <<>>]
  /\ forwards' = [forwards EXCEPT ![t] = <<>>]
  /\ response' = [response EXCEPT ![t] = None]
  /\ UNCHANGED <<gvars, google_account_name, instance, new_instance, account,
                 keep_alive, rot_out, pending, relay, probe>>

(* -------------------------- launch_colab_automated ---------------------- *)
\* the gate clearing is_launching when it turns a caller away
Gate_clearing(t) ==
  /\ pc[t] = "gate"
  /\ IF is_launching
     THEN /\ Return(t, 0)
          /\ is_launching' = FALSE
     ELSE /\ is_launching' = TRUE
          /\ \/ pc' = [pc EXCEPT ![t] = "create"]
             \/ pc' = [pc EXCEPT ![t] = "release"]
          /\ UNCHANGED <<result, response, instance, account, google_account_name>>
  /\ UNCHANGED <<GOOGLE_ACCOUNTS, active_instances, currently_used_account,
                 history_file, now, up, next_id, phase, restarts, route,
                 new_instance, tried, forwards, keep_alive, rot_out, pending, relay, probe>>

\* `with launch_lock:` test-and-set of is_launching, then the driver set-up
\* (Options, ChromeDriverManager().install(), webdriver.Chrome), which
\* succeeds or raises into the outer handler
Gate(t) ==
  /\ pc[t] = "gate"
  /\ IF is_launching
     THEN /\ Return(t, 0)
          /\ UNCHANGED is_launching
     ELSE /\ is_launching' = TRUE
          /\ \/ pc' = [pc EXCEPT ![t] = "create"]
             \/ pc' = [pc EXCEPT ![t] = "release"]
          /\ UNCHANGED <<result, response, instance, account, google_account_name>>
  /\ UNCHANGED <<GOOGLE_ACCOUNTS, active_instances, currently_used_account,
                 history_file, now, up, next_id, phase, restarts, route,
                 new_instance, tried, forwards, keep_alive, rot_out, pending, relay, probe>>

\* instance = ColabInstance(), while uuid values are left within the cap
Create(t, cap) ==
  /\ pc[t] = "create"
  /\ next_id <= cap
  /\ new_instance' = [new_instance EXCEPT ![t] = ColabInstance(next_id, None, now)]
  /\ next_id' = next_id + 1
  /\ pc' = [pc EXCEPT ![t] = "append"]
  /\ UNCHANGED <<GOOGLE_ACCOUNTS, active_instances, is_launching,
                 currently_used_account, history_file, now, up, phase, restarts,
                 route, google_account_name, instance, account, result, tried,
                 forwards, response, keep_alive, rot_out, pending, relay, probe>>

\* active_instances.append(instance)
AppendInstance(t) ==
  /\ pc[t] = "append"
  /\ active_instances' = Append(active_instances, new_instance[t])
  /\ instance' = [instance EXCEPT ![t] = Len(active_instances) + 1]
  /\ new_instance' = [new_instance EXCEPT ![t] = NoInstance]
  /\ pc' = [pc EXCEPT ![t] = "select"]
  /\ UNCHANGED <<GOOGLE_ACCOUNTS, is_launching, currently_used_account,
                 history_file, now, up, next_id, phase, restarts, route,
                 google_account_name, account, result, tried, forwards, response,
                 keep_alive, rot_out, pending, relay, probe>>

RECURSIVE account_named(_, _, _)
\* the loop over config.GOOGLE_ACCOUNTS: the first account whose name or
\* email is google_account_name
account_named(accounts, name, i) ==
  IF i > Len(accounts) THEN NoAccount
  ELSE IF accounts[i].name = name \/ accounts[i].email = name THEN accounts[i]
  ELSE account_named(accounts, name, i + 1)

\* the specified account, if one is named and configured
specified_account(accounts, name) ==
  IF accounts # <<>> /\ name # None THEN account_named(accounts, name, 1)
  ELSE NoAccount

\* the account of the attempt
selected_account(accounts, name, cursor) ==
  IF accounts = <<>> THEN NoAccount
  ELSE IF specified_account(accounts, name) # NoAccount
       THEN specified_account(accounts, name)
       ELSE select_google_account(accounts, cursor)

\* the rotation cursor after the selection: select_google_account runs only
\* when no specified account was found
selected_cursor(accounts, name, cursor) ==
  IF accounts # <<>> /\ specified_account(accounts, name) = NoAccount
  THEN cursor_after(accounts, cursor)
  ELSE cursor

\* instance.google_account given the account's email
set_google_account_email(instances, i, acc) ==
  IF acc # NoAccount THEN [instances EXCEPT ![i].google_account = acc.email]
  ELSE instances

\* instance.google_account = account['name'], when there is an account
set_google_account(instances, i, acc) ==
  IF acc # NoAccount THEN [instances EXCEPT ![i].google_account = acc.name]
  ELSE instances

\* account selection, instance.google_account, save_history
SelectAccount(t, atomic) ==
  /\ pc[t] = "select"
  /\ LET acc == selected_account(GOOGLE_ACCOUNTS, google_account_name[t],
                                 currently_used_account)
     IN /\ account' = [account EXCEPT ![t] = acc]
        /\ currently_used_account' =
             selected_cursor(GOOGLE_ACCOUNTS, google_account_name[t],
                             currently_used_account)
        /\ active_instances' = set_google_account(active_instances, instance[t], acc)
        /\ tried' = [tried EXCEPT ![t] = IF acc # NoAccount THEN Append(@, acc.name) ELSE @]
  /\ SaveHistory(LaunchWriter(t), atomic)
  /\ pc' = [pc EXCEPT ![t] = "provision"]
  /\ UNCHANGED <<GOOGLE_ACCOUNTS, is_launching, now, up, next_id, phase,
                 restarts, route, google_account_name, instance, new_instance,
                 result, forwards, response, keep_alive, rot_out>>

\* `len(config.GOOGLE_ACCOUNTS) > 1 and account`
can_fail_over(accounts, acc) == Len(accounts) > 1 /\ acc # NoAccount

\* instance.cloudflare_url = cloudflare_url
set_cloudflare_url(instances, i, url) == [instances EXCEPT ![i].cloudflare_url = url]

\* The browser session, from driver.get to the polling of the cell output.
\* Its outcomes, as the code tells them apart:
\*   page_load_exception  driver.get / wait.until raise: outer handler
\*   resource_exhausted   select_t4_gpu() is "unavailable", or a limit or
\*                        quota message shows after Connect: failover when
\*                        can_fail_over, otherwise the session just goes on
\*   connect_exception    TimeoutException / WebDriverException at Connect
\*   url_found            the output shows the Cloudflare URL
\*   url_not_found        no URL within max_attempts, or an exception while
\*                        running the cell
Provision(t) ==
  /\ pc[t] = "provision"
  /\ \/ /\ pc' = [pc EXCEPT ![t] = "release"]
        /\ UNCHANGED <<active_instances, up>>
     \/ /\ pc' = [pc EXCEPT ![t] =
                    IF can_fail_over(GOOGLE_ACCOUNTS, account[t])
                    THEN "failover" ELSE "provision"]
        /\ UNCHANGED <<active_instances, up>>
     \/ /\ pc' = [pc EXCEPT ![t] = "connect_error"]
        /\ UNCHANGED <<active_instances, up>>
     \/ /\ active_instances' =
             set_cloudflare_url(active_instances, instance[t],
                                Endpoint(active_instances[instance[t]].id))
        /\ up' = up \cup {Endpoint(active_instances[instance[t]].id)}
        /\ pc' = [pc EXCEPT ![t] = "activate"]
     \/ /\ pc' = [pc EXCEPT ![t] = "failed"]
        /\ UNCHANGED <<active_instances, up>>
  /\ UNCHANGED <<GOOGLE_ACCOUNTS, is_launching, currently_used_account,
                 history_file, now, next_id, phase, restarts, route,
                 google_account_name, instance, new_instance, account, result,
                 tried, forwards, response, keep_alive, rot_out, pending, relay, probe>>

\* failover: `with launch_lock: is_launching = False`
FailoverRelease(t) ==
  /\ pc[t] = "failover"
  /\ is_launching' = FALSE
  /\ pc' = [pc EXCEPT ![t] = "failover_cleanup"]
  /\ UNCHANGED <<GOOGLE_ACCOUNTS, active_instances, currently_used_account,
                 history_file, now, up, next_id, phase, restarts, route,
                 google_account_name, instance, new_instance, account, result,
                 tried, forwards, response, keep_alive, rot_out, pending, relay, probe>>

\* instance.status = ... that also forgets the endpoint
set_status_clearing(instances, i, status) ==
  [instances EXCEPT ![i].status = status, ![i].cloudflare_url = None]

\* instance.status = ...
set_status(instances, i, status) == [instances EXCEPT ![i].status = status]

\* next_accounts without the exclusion of the current account
next_accounts_all(accounts, acc) == accounts

\* next_accounts: every configured account but the current one
next_accounts(accounts, acc) ==
  SelectSeq(accounts, LAMBDA a : a.email # acc.email)

\* failover: instance.status = "error", save_history, driver.quit(); then
\* `return launch_colab_automated(next_accounts[0]['name'])`, or, when
\* driver.quit() raises, the outer handler
FailoverCleanup(t, atomic) ==
  /\ pc[t] = "failover_cleanup"
  /\ active_instances' = set_status(active_instances, instance[t], "error")
  /\ SaveHistory(LaunchWriter(t), atomic)
  /\ \/ /\ google_account_name' =
             [google_account_name EXCEPT ![t] =
                next_accounts(GOOGLE_ACCOUNTS, account[t])[1].name]
        /\ pc' = [pc EXCEPT ![t] = "gate"]
     \/ /\ pc' = [pc EXCEPT ![t] = "release"]
        /\ UNCHANGED google_account_name
  /\ UNCHANGED <<GOOGLE_ACCOUNTS, is_launching, currently_used_account, now, up,
                 next_id, phase, restarts, route, instance, new_instance,
                 account, result, tried, forwards, response, keep_alive, rot_out>>

\* instance.status = "error", save_history, driver.quit(), towards the
\* release of the gate
MarkError(t, atomic) ==
  /\ active_instances' = set_status(active_instances, instance[t], "error")
  /\ SaveHistory(LaunchWriter(t), atomic)
  /\ pc' = [pc EXCEPT ![t] = "release"]
  /\ UNCHANGED <<GOOGLE_ACCOUNTS, is_launching, currently_used_account, now, up,
                 next_id, phase, restarts, route, google_account_name, instance,
                 new_instance, account, result, tried, forwards, response,
                 keep_alive, rot_out>>

\* except (TimeoutException, WebDriverException) of the Connect block
ConnectError(t, atomic) ==
  /\ pc[t] = "connect_error"
  /\ MarkError(t, atomic)

\* "If we get here, something went wrong"
Failed(t, atomic) ==
  /\ pc[t] = "failed"
  /\ MarkError(t, atomic)

\* `with launch_lock: is_launching = False`, `return None`: the end of the
\* Connect block's handler, and the end of the function, which the outer
\* `except Exception` and the fall-through reach
Release(t) ==
  /\ pc[t] = "release"
  /\ is_launching' = FALSE
  /\ Return(t, 0)
  /\ UNCHANGED <<GOOGLE_ACCOUNTS, active_instances, currently_used_account,
                 history_file, now, up, next_id, phase, restarts, route,
                 new_instance, tried, forwards, keep_alive, rot_out, pending, relay, probe>>

\* instance.status = "active" without the save_history that follows it
Activate_unsaved(t, atomic) ==
  /\ pc[t] = "activate"
  /\ active_instances' = set_status(active_instances, instance[t], "active")
  /\ pc' = [pc EXCEPT ![t] = "success_release"]
  /\ UNCHANGED <<GOOGLE_ACCOUNTS, is_launching, currently_used_account, now, up,
                 next_id, phase, restarts, route, google_account_name, instance,
                 new_instance, account, result, tried, forwards, response,
                 keep_alive, rot_out, history_file, pending, relay, probe>>

\* instance.status = "active", save_history
Activate(t, atomic) ==
  /\ pc[t] = "activate"
  /\ active_instances' = set_status(active_instances, instance[t], "active")
  /\ SaveHistory(LaunchWriter(t), atomic)
  /\ pc' = [pc EXCEPT ![t] = "success_release"]
  /\ UNCHANGED <<GOOGLE_ACCOUNTS, is_launching, currently_used_account, now, up,
                 next_id, phase, restarts, route, google_account_name, instance,
                 new_instance, account, result, tried, forwards, response,
                 keep_alive, rot_out>>

\* success: `with launch_lock: is_launching = False`
SuccessRelease(t) ==
  /\ pc[t] = "success_release"
  /\ is_launching' = FALSE
  /\ pc' = [pc EXCEPT ![t] = "success_thread"]
  /\ UNCHANGED <<GOOGLE_ACCOUNTS, active_instances, currently_used_account,
                 history_file, now, up, next_id, phase, restarts, route,
                 google_account_name, instance, new_instance, account, result,
                 tried, forwards, response, keep_alive, rot_out, pending, relay, probe>>

(* ------------------------------ keep_colab_alive ------------------------ *)
\* the while condition without the test of the age
keep_alive_loop_unaged(inst, t) ==
  IF inst.status = "active" THEN "sleep" ELSE "terminated"

\* the while condition: go to sleep, or leave the loop
keep_alive_loop(inst, t) ==
  IF inst.status = "active" /\ ~is_expired(inst, t) THEN "sleep" ELSE "terminated"

\* success: threading.Thread(target=keep_colab_alive).start(), return
\* instance; the new thread evaluates its while condition
SuccessReturn(t) ==
  /\ pc[t] = "success_thread"
  /\ keep_alive' = [keep_alive EXCEPT ![instance[t]] =
                      keep_alive_loop(active_instances[instance[t]], now)]
  /\ Return(t, instance[t])
  /\ UNCHANGED <<gvars, route, new_instance, tried, forwards, rot_out, pending, relay, probe>>

\* keep_colab_alive without the `break` after a failed probe
KeepAliveIteration_unbroken(i, atomic) ==
  /\ keep_alive[i] = "sleep"
  /\ IF ~is_active(active_instances[i], up)
     THEN /\ active_instances' = set_status(active_instances, i, "inactive")
          /\ SaveHistory(KeepAliveWriter(i), atomic)
          /\ UNCHANGED keep_alive
     ELSE \/ /\ keep_alive' = [keep_alive EXCEPT ![i] =
                                 keep_alive_loop(active_instances[i], now)]
             /\ UNCHANGED <<active_instances, history_file, pending, relay, probe>>
          \/ /\ active_instances' = set_status(active_instances, i, "error")
             /\ SaveHistory(KeepAliveWriter(i), atomic)
             /\ keep_alive' = [keep_alive EXCEPT ![i] = "terminated"]
  /\ UNCHANGED <<GOOGLE_ACCOUNTS, is_launching, currently_used_account, now, up,
                 next_id, phase, restarts, tvars, rot_out>>

\* after time.sleep(KEEP_ALIVE_INTERVAL): the probe, then either "inactive",
\* save and break, or the refresh, which succeeds (back to the while
\* condition) or raises ("error", save and break)
KeepAliveIteration(i, atomic) ==
  /\ keep_alive[i] = "sleep"
  /\ IF ~is_active(active_instances[i], up)
     THEN /\ active_instances' = set_status(active_instances, i, "inactive")
          /\ SaveHistory(KeepAliveWriter(i), atomic)
          /\ keep_alive' = [keep_alive EXCEPT ![i] = "terminated"]
     ELSE \/ /\ keep_alive' = [keep_alive EXCEPT ![i] =
                                 keep_alive_loop(active_instances[i], now)]
             /\ UNCHANGED <<active_instances, history_file, pending, relay, probe>>
          \/ /\ active_instances' = set_status(active_instances, i, "error")
             /\ SaveHistory(KeepAliveWriter(i), atomic)
             /\ keep_alive' = [keep_alive EXCEPT ![i] = "terminated"]
  /\ UNCHANGED <<GOOGLE_ACCOUNTS, is_launching, currently_used_account, now, up,
                 next_id, phase, restarts, tvars, rot_out>>

(* ------------------------------ specification --------------------------- *)
\* the steps of launch_colab_automated
LaunchStep(t, cap, atomic) ==
  \/ Gate(t) \/ Create(t, cap) \/ AppendInstance(t) \/ SelectAccount(t, atomic)
  \/ Provision(t) \/ FailoverRelease(t) \/ FailoverCleanup(t, atomic)
  \/ ConnectError(t, atomic) \/ Failed(t, atomic) \/ Release(t)
  \/ Activate(t, atomic) \/ SuccessRelease(t) \/ SuccessReturn(t)

\* everything a request thread does
ThreadStep(t, cap, atomic) ==
  \/ ProxySpeech(t) \/ ProxyVoices(t) \/ LaunchNew(t)
  \/ GetOrCreate(t) \/ Forward(t) \/ Finish(t)
  \/ LaunchStep(t, cap, atomic)

\* one request at a time, the keep-alive threads beside it, time, backends
\* going away, restarts
Next ==
  \/ Main
  \/ Restart
  \/ Tick
  \/ BackendDown
  \/ ThreadStep(1, MaxInstances, TRUE)
  \/ \E i \in Positions : KeepAliveIteration(i, TRUE)

Spec == Init /\ [][Next]_vars

\* concurrent requests
NextConcurrent ==
  \/ Main
  \/ BackendDown
  \/ \E t \in Threads : ThreadStep(t, MaxInstances, TRUE)
  \/ \E i \in Positions : KeepAliveIteration(i, TRUE)

SpecConcurrent == Init /\ [][NextConcurrent]_vars

\* concurrent /launch threads and the clock
NextLaunch ==
  \/ Main
  \/ Tick
  \/ \E t \in Threads : LaunchNew(t) \/ Finish(t) \/ LaunchStep(t, MaxLaunches, TRUE)

SpecLaunch == Init /\ [][NextLaunch]_vars

\* one launching thread beside the keep-alive threads, save_history taken as
\* its statements run; a thread inside save_history does nothing else
NextPersist ==
  \/ Main
  \/ BackendDown
  \/ /\ ~pending[LaunchWriter(1)].waiting
     /\ LaunchNew(1) \/ Finish(1) \/ LaunchStep(1, MaxInstances, FALSE)
  \/ \E i \in Positions :
       ~pending[KeepAliveWriter(i)].waiting /\ KeepAliveIteration(i, FALSE)
  \/ \E w \in Writers : CloseHistory(w)

SpecPersist == Init /\ [][NextPersist]_vars

(* ------------------- select_google_account on its own ------------------- *)
\* every list of distinct accounts out of the pool, the empty one included
RotLists ==
  {l \in UNION {[1..n -> AccountPool] : n \in 0..Cardinality(AccountPool)} :
     \A i, j \in DOMAIN l : i # j => l[i] # l[j]}

\* any configured list, any cursor: none, a listed account, an account that
\* is no longer in the list
InitRot ==
  /\ GOOGLE_ACCOUNTS \in RotLists
  /\ currently_used_account \in AccountPool \cup {NoAccount}
  /\ active_instances = <<>>
  /\ is_launching = FALSE
  /\ history_file = <<>>
  /\ now = 0
  /\ up = {}
  /\ next_id = 1
  /\ phase = "rotation"
  /\ restarts = 0
  /\ ThreadInit
  /\ keep_alive = [i \in Positions |-> "none"]
  /\ rot_out = <<>>
  /\ pending = [w \in Writers |-> NoWrite]
  /\ relay = NoRelay
  /\ probe = NoProbe

\* one call of select_google_account(config.GOOGLE_ACCOUNTS)
SelectNext ==
  /\ phase = "rotation"
  /\ Len(rot_out) < Len(GOOGLE_ACCOUNTS) + RotExtra
  /\ rot_out' = Append(rot_out, select_google_account(GOOGLE_ACCOUNTS,
                                                      currently_used_account))
  /\ currently_used_account' = cursor_after(GOOGLE_ACCOUNTS, currently_used_account)
  /\ UNCHANGED <<GOOGLE_ACCOUNTS, active_instances, is_launching, history_file,
                 now, up, next_id, phase, restarts, tvars, keep_alive, pending, relay, probe>>

SpecRot == InitRot /\ [][SelectNext]_vars

(* ------------------------------- properties ----------------------------- *)
\* thread t is executing a provisioning attempt: it has passed the gate, and
\* its attempt has neither returned an instance nor finished cleaning up
\* (instance out of "initializing", browser closed)
Executing(t) ==
  pc[t] \in {"create", "append", "select", "provision", "failover",
             "failover_cleanup", "connect_error", "failed", "activate",
             "success_release"}

\* C1: under any interleaving of concurrent launch_colab_automated calls, at
\* most one provisioning attempt is executing at any time.
C1_SingleFlight == Cardinality({t \in Threads : Executing(t)}) <= 1

\* registry positions of the instances whose status is "initializing"
Initializing == {i \in 1..Len(active_instances) :
                   active_instances[i].status = "initializing"}

\* C2: in every reachable state the registry holds at most one instance whose
\* status is "initializing", also after attempts that ended in a failure.
C2_OneInitializing == Cardinality(Initializing) <= 1

\* s is an initial segment of q
IsPrefix(s, q) == Len(s) <= Len(q) /\ \A i \in 1..Len(s) : s[i] = q[i]

\* C3: with accounts [A, B, C] and a first attempt using A, the attempts of
\* one top-level call use A, then B, then C, and nothing after C: A is never
\* attempted again.
C3_FailoverOrder ==
  \A t \in Threads :
    (GOOGLE_ACCOUNTS = <<AccountA, AccountB, AccountC>>
       /\ tried[t] # <<>> /\ tried[t][1] = AccountA.name)
    => IsPrefix(tried[t], <<AccountA.name, AccountB.name, AccountC.name>>)

\* C4: within one top-level call every configured account is used for at
\* most one attempt, so the attempts never outnumber the configured accounts.
C4_OncePerCredential ==
  \A t \in Threads :
    /\ \A i, j \in 1..Len(tried[t]) : i # j => tried[t][i] # tried[t][j]
    /\ GOOGLE_ACCOUNTS # <<>> => Len(tried[t]) <= Len(GOOGLE_ACCOUNTS)

\* the names of the configured accounts
ConfiguredNames == {GOOGLE_ACCOUNTS[i].name : i \in 1..Len(GOOGLE_ACCOUNTS)}

\* C5: a top-level call returns a failure once every configured account has
\* reported ResourceExhausted: it never goes on to another attempt.  (Every
\* account in tried[t] of a thread that is past the gate and before the
\* account selection has reported ResourceExhausted in this call: a new
\* attempt inside the call is only ever started by the failover.)
C5_FailsWhenExhausted ==
  \A t \in Threads :
    ~(/\ Len(GOOGLE_ACCOUNTS) > 1
      /\ pc[t] \in {"create", "append", "select"}
      /\ ConfiguredNames \subseteq {tried[t][i] : i \in 1..Len(tried[t])})

\* C6: find_active_instance never returns an instance whose age exceeds
\* MAX_INSTANCE_AGE_HOURS, so no request is forwarded to one: whenever a
\* request leaves get_or_create_instance with a found instance, that instance
\* is not expired.
C6_NeverExpired ==
  [][\A t \in Threads :
       (pc[t] = "idle" /\ pc'[t] = "forward")
       => ~is_expired(active_instances'[result'[t]], now')]_vars

\* position of account a in the configured list
ListIndex(a) == CHOOSE i \in 1..Len(GOOGLE_ACCOUNTS) : GOOGLE_ACCOUNTS[i] = a

\* C7: for a list of N distinct accounts and any starting cursor, any N
\* consecutive select_google_account calls return each of the N accounts
\* exactly once, in cyclic list order: each result is a listed account, and
\* each next result is the list successor of the one before (the first after
\* the last).
C7_RoundRobin ==
  LET N == Len(GOOGLE_ACCOUNTS)
  IN (phase = "rotation" /\ N > 0) =>
       /\ \A k \in 1..Len(rot_out) : \E i \in 1..N : rot_out[k] = GOOGLE_ACCOUNTS[i]
       /\ \A k \in 1..(Len(rot_out) - 1) :
            ListIndex(rot_out[k + 1]) = (ListIndex(rot_out[k]) % N) + 1
       /\ \A j \in 1..Len(rot_out) :
            j + N - 1 <= Len(rot_out)
            => {rot_out[k] : k \in j..(j + N - 1)}
                 = {GOOGLE_ACCOUNTS[i] : i \in 1..N}

\* C7 witness: a list of three accounts, a cursor that is not the last one
\* selected from it, and a full period of calls plus one
C7_Witness ==
  /\ phase = "rotation"
  /\ Len(GOOGLE_ACCOUNTS) = 3
  /\ Len(rot_out) = 4
  /\ rot_out[1] = GOOGLE_ACCOUNTS[3]
  /\ rot_out[4] = rot_out[1]

\* C8: the registry never holds two instances with the same id, and its
\* instances are in the order of their creation times.
C8_UniqueOrdered ==
  \A i, j \in 1..Len(active_instances) :
    i < j => /\ active_instances[i].id # active_instances[j].id
             /\ active_instances[i].created_at <= active_instances[j].created_at

\* C9, first half: saving a registry and loading the file again, at any
\* later time, gives the same sequence of instances, field by field.
C9_RoundTrip ==
  \A t \in {now, MaxClock} :
    load_history(save_history(active_instances, now), t) = active_instances

\* C9, second half: main() leaves every reloaded instance as the file has it,
\* except that it sets to "inactive" the instances that were not stored
\* active, or do not answer the probe, or are past the maximum age.
C9_ReloadStep ==
  (phase = "boot" /\ phase' = "serving") =>
    /\ Len(active_instances') = Len(history_file)
    /\ \A i \in 1..Len(history_file) :
         LET stored == history_file[i]
             loaded == active_instances'[i]
         IN /\ loaded.id = stored.id
            /\ loaded.cloudflare_url = stored.cloudflare_url
            /\ loaded.google_account = stored.google_account
            /\ isoformat(loaded.created_at) = stored.created_at
            /\ isoformat(loaded.last_used_at) = stored.last_used_at
            /\ loaded.status # stored.status =>
                 /\ loaded.status = "inactive"
                 /\ \/ stored.status # "active"
                    \/ stored.cloudflare_url \notin up
                    \/ now - loaded.created_at > MAX_INSTANCE_AGE_HOURS
            /\ (/\ stored.status = "active"
                /\ stored.cloudflare_url \in up
                /\ now - loaded.created_at <= MAX_INSTANCE_AGE_HOURS)
               => loaded.status = "active"

FirstHealthy ==
  /\ Len(active_instances) >= 1
  /\ active_instances[1].status = "active"
  /\ is_active(active_instances[1], up)
  /\ ~is_expired(active_instances[1], now)

\* C10, the first request: with one configured account and an empty registry,
\* a client request that had to provision and was forwarded made exactly one
\* attempt, created exactly one instance, and was forwarded once, to the
\* endpoint of that instance.
C10_FirstRequest ==
  \A t \in Threads :
    (/\ Len(GOOGLE_ACCOUNTS) = 1 /\ restarts = 0
     /\ route[t] = "proxy" /\ pc[t] = "done"
     /\ tried[t] # <<>> /\ forwards[t] # <<>>
     /\ Len(active_instances) = 1)
    => /\ tried[t] = <<GOOGLE_ACCOUNTS[1].name>>
       /\ next_id = 2
       /\ result[t] = 1
       /\ active_instances[1].cloudflare_url = Endpoint(1)
       /\ forwards[t] = <<Endpoint(1)>>

\* C10, the later requests: while the first instance is healthy and within
\* the maximum age, an arriving client request is given that instance with
\* no launch (no instance created, the gate untouched), and its one forward
\* goes to that instance's endpoint.
C10_ReuseStep ==
  \A t \in Threads :
    /\ (pc[t] = "idle" /\ route'[t] = "proxy" /\ FirstHealthy)
       => /\ pc'[t] = "forward" /\ result'[t] = 1
          /\ next_id' = next_id /\ is_launching' = is_launching
          /\ tried'[t] = <<>>
    /\ (pc[t] = "forward" /\ pc'[t] = "done")
       => /\ forwards'[t] = <<active_instances[result[t]].cloudflare_url>>
          /\ next_id' = next_id /\ tried'[t] = tried[t]

\* C10: end to end, the first request provisions once and is forwarded to
\* the new endpoint; later requests reuse the instance while it is healthy
\* and within the maximum age, without another launch.
C10_EndToEnd == []C10_FirstRequest /\ [][C10_ReuseStep]_vars

\* C10 witness: one account, one instance ever created, and a later request
\* that made no attempt has been relayed by the first instance's endpoint
C10_Witness ==
  /\ GOOGLE_ACCOUNTS = <<AccountA>> /\ restarts = 0 /\ next_id = 2
  /\ Len(active_instances) = 1
  /\ active_instances[1].google_account = AccountA.name
  /\ pc[1] = "done" /\ route[1] = "proxy"
  /\ tried[1] = <<>>
  /\ forwards[1] = <<Endpoint(1)>>
  /\ response[1] = "relayed"

\* registry positions of the instances with that status and that account
WithStatusAndAccount(instances, status, name) ==
  {i \in 1..Len(instances) :
     instances[i].status = status /\ instances[i].google_account = name}

\* C11, the launch: with accounts [A, B] and an empty registry, a client
\* request whose launch returns an instance on its second attempt has tried
\* A and then B, and at that moment the registry holds exactly one "error"
\* instance of A and exactly one "active" instance of B, the one returned.
C11_LaunchStep ==
  \A t \in Threads :
    (/\ GOOGLE_ACCOUNTS = <<AccountA, AccountB>>
     /\ route[t] = "proxy"
     /\ pc[t] = "success_thread" /\ pc'[t] = "forward"
     /\ Len(tried[t]) = 2 /\ Len(active_instances) = 2)
    => /\ tried[t] = <<AccountA.name, AccountB.name>>
       /\ WithStatusAndAccount(active_instances', "error", AccountA.name) = {1}
       /\ WithStatusAndAccount(active_instances', "active", AccountB.name) = {2}
       /\ Initializing = {}
       /\ result'[t] = 2
       /\ active_instances'[2].cloudflare_url = Endpoint(active_instances'[2].id)

\* C11, the forward: that request is forwarded once, to the endpoint of the
\* instance of B.
C11_ForwardStep ==
  \A t \in Threads :
    (/\ GOOGLE_ACCOUNTS = <<AccountA, AccountB>>
     /\ route[t] = "proxy"
     /\ pc[t] = "forward" /\ pc'[t] = "done"
     /\ Len(tried[t]) = 2 /\ Len(active_instances) = 2)
    => /\ result[t] = 2
       /\ active_instances[2].google_account = AccountB.name
       /\ forwards'[t] = <<Endpoint(active_instances[2].id)>>

\* C11: with accounts A and B, ResourceExhausted for A and then success for
\* B, the client request is forwarded to B's endpoint and the registry holds
\* exactly one "error" instance of A and exactly one "active" instance of B.
C11_FailoverSuccess == [][C11_LaunchStep /\ C11_ForwardStep]_vars

\* C11 witness: the request has been relayed by B's endpoint; instance 1 is
\* the failed attempt with A, instance 2 the active one with B
C11_Witness ==
  /\ GOOGLE_ACCOUNTS = <<AccountA, AccountB>>
  /\ pc[1] = "done" /\ route[1] = "proxy" /\ response[1] = "relayed"
  /\ tried[1] = <<AccountA.name, AccountB.name>>
  /\ forwards[1] = <<Endpoint(2)>>
  /\ Len(active_instances) = 2
  /\ active_instances[1].status = "error"
  /\ active_instances[1].google_account = AccountA.name
  /\ active_instances[2].status = "active"
  /\ active_instances[2].google_account = AccountB.name

C13_OneForward ==
  \A t \in Threads :
    /\ Len(forwards[t]) <= 1
    /\ response[t] = "500 forward failed" => (pc[t] = "done" /\ Len(forwards[t]) = 1)

\* C13, in every step: after its forward the request only ends; it goes
\* neither back to forwarding nor on to a launch.
C13_ForwardStep ==
  \A t \in Threads :
    /\ (pc[t] = "forward" /\ pc'[t] # "forward") => pc'[t] = "done"
    /\ (pc[t] = "done" /\ pc'[t] # "done") => pc'[t] = "idle"
    /\ (pc[t] = "done" /\ pc'[t] = "done") => forwards'[t] = forwards[t]

\* C13: on a transport failure while forwarding the request is answered with
\* the error and makes no further forward: one client request sends at most
\* one forward, to one instance, and starts no launch after the failure.
C13_NoRetry == []C13_OneForward /\ [][C13_ForwardStep]_vars

\* C13 witness: a request found a healthy instance, its forward failed, and
\* it has been answered with the error
C13_Witness ==
  /\ pc[1] = "done" /\ route[1] = "proxy"
  /\ response[1] = "500 forward failed"
  /\ result[1] # 0
  /\ forwards[1] = <<active_instances[result[1]].cloudflare_url>>

\* the lifecycle: the status changes an instance may go through
Lifecycle == {<<"initializing", "active">>, <<"initializing", "error">>,
              <<"active", "inactive">>, <<"active", "error">>}

\* C14: every change of an instance's status, in memory or from the stored
\* status to the one main() gives it at the reload, is one of
\* initializing->active, initializing->error, active->inactive,
\* active->error; an "inactive" or "error" instance never changes again.
C14_Lifecycle ==
  [][/\ \A i \in 1..Len(active_instances) :
          (i <= Len(active_instances')
             /\ active_instances'[i].status # active_instances[i].status)
          => <<active_instances[i].status, active_instances'[i].status>> \in Lifecycle
     /\ (phase = "boot" /\ phase' = "serving") =>
          \A i \in 1..Len(history_file) :
            active_instances'[i].status # history_file[i].status
            => <<history_file[i].status, active_instances'[i].status>> \in Lifecycle]_vars

\* C15: in every state an "initializing" instance has no endpoint and an
\* "active" instance has one; an endpoint is only on instances that are
\* "active", or "inactive" or "error" after having been active.
C15_EndpointIffActive ==
  \A i \in 1..Len(active_instances) :
    LET inst == active_instances[i]
    IN /\ inst.status = "initializing" => inst.cloudflare_url = None
       /\ inst.status = "active" => inst.cloudflare_url # None
       /\ inst.cloudflare_url # None => inst.status \in {"active", "inactive", "error"}

\* registry positions of the instances launch_colab_automated has returned
\* in this run of the process: those given a keep-alive thread
Returned == {i \in Positions : keep_alive[i] # "none"}

\* a returned instance is in the registry, with its endpoint, in one of the
\* given statuses
SeenWithStatus(statuses) ==
  \A i \in Returned :
    /\ i <= Len(active_instances)
    /\ active_instances[i].cloudflare_url # None
    /\ active_instances[i].status \in statuses

\* launch_colab_automated returns an "active" instance, and a later
\* find_active_instance returns a returned instance whenever it answers the
\* probe and no earlier entry does
C16_FindStep ==
  \A t \in Threads :
    /\ (pc[t] = "success_thread" /\ pc'[t] \in {"forward", "done"})
       => /\ result'[t] \in Returned'
          /\ active_instances'[result'[t]].status = "active"
    /\ (pc[t] = "idle" /\ route'[t] = "proxy")
       => \A i \in Returned :
            (/\ is_active(active_instances[i], up)
             /\ \A j \in 1..(i - 1) : ~is_active(active_instances[j], up))
            => (pc'[t] = "forward" /\ result'[t] = i)

C17_NoStaleSnapshot ==
  (\A w \in Writers : ~pending[w].waiting) =>
    \A i \in 1..Len(history_file) :
      i <= Len(active_instances)
      => history_file[i].status = active_instances[i].status

\* C18: when main() has reloaded and validated, every stored instance that
\* does not answer the probe is "inactive" in memory and in the file, the
\* file is the registry saved, and only instances stored "active", answering
\* the probe and within the maximum age are "active".
C18_ReloadStep ==
  (phase = "boot" /\ phase' = "serving") =>
    /\ Len(active_instances') = Len(history_file)
    /\ history_file' = save_history(active_instances', now)
    /\ \A i \in 1..Len(history_file) :
         /\ (history_file[i].cloudflare_url = None
               \/ history_file[i].cloudflare_url \notin up)
            => /\ active_instances'[i].status = "inactive"
               /\ history_file'[i].status = "inactive"
         /\ active_instances'[i].status = "active"
            => /\ history_file[i].status = "active"
               /\ history_file[i].cloudflare_url \in up
               /\ now - fromisoformat(history_file[i].created_at)
                    <= MAX_INSTANCE_AGE_HOURS
               /\ history_file'[i].status = "active"

\* C18: every step that completes the start-up reload leaves the registry
\* and the file as above.
C18_Reload == [][C18_ReloadStep]_vars

\* C18 witness: after a restart main() has kept one instance active and set
\* to "inactive" one whose endpoint no longer answers
C18_Witness ==
  /\ phase = "serving" /\ restarts = 1
  /\ Len(active_instances) = 2
  /\ \E i, j \in 1..2 :
       /\ active_instances[i].status = "inactive"
       /\ active_instances[i].cloudflare_url # None
       /\ active_instances[i].cloudflare_url \notin up
       /\ history_file[i].status = "inactive"
       /\ active_instances[j].status = "active"
  /\ \A i \in Positions : keep_alive[i] = "none"

\* registry positions of the "active" instances that answer the probe
ActiveAndResponsive ==
  {i \in 1..Len(active_instances) :
     active_instances[i].status = "active" /\ is_active(active_instances[i], up)}

\* C19: find_active_instance returns none, or the first instance of the
\* registry that is "active" and answers the probe, never one that is
\* "initializing", "inactive" or "error", and sets the last_used_at of the
\* instance it returns.
C19_FirstActive ==
  [][\A t \in Threads :
       (pc[t] = "idle" /\ route'[t] = "proxy") =>
         IF ActiveAndResponsive = {}
         THEN pc'[t] = "history"
         ELSE /\ pc'[t] = "forward"
              /\ result'[t] \in ActiveAndResponsive
              /\ \A j \in ActiveAndResponsive : result'[t] <= j
              /\ active_instances'[result'[t]].last_used_at = now]_vars

\* C20: find_active_instance changes no instance's status or endpoint and
\* adds or removes no registry entry, whether probes succeed or fail; it
\* changes only last_used_at, and only of the instance it returns.
C20_FindFrame ==
  [][\A t \in Threads :
       (pc[t] = "idle" /\ route'[t] = "proxy") =>
         /\ Len(active_instances') = Len(active_instances)
         /\ \A i \in 1..Len(active_instances) :
              /\ [active_instances'[i] EXCEPT !.last_used_at = 0]
                   = [active_instances[i] EXCEPT !.last_used_at = 0]
              /\ active_instances'[i].last_used_at # active_instances[i].last_used_at
                 => (pc'[t] = "forward" /\ result'[t] = i)
         /\ UNCHANGED <<history_file, is_launching, currently_used_account,
                        next_id, up>>]_vars

\* C20 witness: a request was given instance 1, of an earlier hour, and only
\* its last_used_at moved; instance 2, whose endpoint no longer answers, is
\* as it was
C20_Witness ==
  /\ pc[1] = "forward" /\ result[1] = 1
  /\ Len(active_instances) = 2
  /\ active_instances[1].created_at < now
  /\ active_instances[1].last_used_at = now
  /\ active_instances[2].status = "active"
  /\ active_instances[2].cloudflare_url \notin up
  /\ active_instances[2].last_used_at < now

\* positions of the cursor's account in the configured list (by email)
CursorPositions ==
  {i \in 1..Len(GOOGLE_ACCOUNTS) :
     GOOGLE_ACCOUNTS[i].email = currently_used_account.email}

\* C21: select_google_account returns none and leaves the cursor for an
\* empty list; the first account when the cursor holds none; otherwise the
\* account after the cursor's in list order, the first one when the cursor's
\* account is last or not in the list; and after a selection from a
\* non-empty list the cursor is the account returned.
C21_SelectNext ==
  [][(phase = "rotation" /\ Len(rot_out') = Len(rot_out) + 1) =>
       LET N == Len(GOOGLE_ACCOUNTS)
           out == rot_out'[Len(rot_out')]
       IN IF N = 0
          THEN out = NoAccount /\ currently_used_account' = currently_used_account
          ELSE /\ currently_used_account' = out
               /\ IF currently_used_account = NoAccount THEN out = GOOGLE_ACCOUNTS[1]
                  ELSE IF CursorPositions = {} THEN out = GOOGLE_ACCOUNTS[1]
                  ELSE \A k \in CursorPositions :
                         out = IF k = N THEN GOOGLE_ACCOUNTS[1]
                               ELSE GOOGLE_ACCOUNTS[k + 1]]_vars

\* C21 witness: three accounts, the cursor started at the second: the third,
\* the wrap to the first, then the second, where the cursor now is
C21_Witness ==
  /\ phase = "rotation"
  /\ Len(GOOGLE_ACCOUNTS) = 3
  /\ rot_out = <<GOOGLE_ACCOUNTS[3], GOOGLE_ACCOUNTS[1], GOOGLE_ACCOUNTS[2]>>
  /\ currently_used_account = GOOGLE_ACCOUNTS[2]

(* --------------- the account selection of one attempt, on its own ------- *)
\* the values launch_colab_automated is called with: no name, a name, an email
AccountNames ==
  {None} \cup {a.name : a \in AccountPool} \cup {a.email : a \in AccountPool}

\* thread 1 is in launch_colab_automated(google_account_name), past the gate
\* and the append of its instance, before the account selection; any
\* configured list, any cursor, any argument
InitSelect ==
  /\ GOOGLE_ACCOUNTS \in RotLists
  /\ currently_used_account \in AccountPool \cup {NoAccount}
  /\ active_instances = <<ColabInstance(1, None, 0)>>
  /\ is_launching = TRUE
  /\ history_file = <<>>
  /\ now = 0
  /\ up = {}
  /\ next_id = 2
  /\ phase = "serving"
  /\ restarts = 0
  /\ pc = [t \in Threads |-> IF t = 1 THEN "select" ELSE "idle"]
  /\ route = [t \in Threads |-> IF t = 1 THEN "launch" ELSE None]
  /\ google_account_name \in
       {[t \in Threads |-> IF t = 1 THEN n ELSE None] : n \in AccountNames}
  /\ instance = [t \in Threads |-> IF t = 1 THEN 1 ELSE 0]
  /\ new_instance = [t \in Threads |-> NoInstance]
  /\ account = [t \in Threads |-> NoAccount]
  /\ result = [t \in Threads |-> 0]
  /\ tried = [t \in Threads |-> <<>>]
  /\ forwards = [t \in Threads |-> <<>>]
  /\ response = [t \in Threads |-> None]
  /\ keep_alive = [i \in Positions |-> "none"]
  /\ rot_out = <<>>
  /\ pending = [w \in Writers |-> NoWrite]
  /\ relay = NoRelay
  /\ probe = NoProbe

SpecSelect == InitSelect /\ [][SelectAccount(1, TRUE)]_vars

\* positions of the configured accounts that name (by name or email) n
NamedPositions(n) ==
  {i \in 1..Len(GOOGLE_ACCOUNTS) :
     GOOGLE_ACCOUNTS[i].name = n \/ GOOGLE_ACCOUNTS[i].email = n}

\* C22: in launch_colab_automated, a google_account_name that names a
\* configured account makes the attempt use that account; with no name, or a
\* name of no configured account, the attempt uses select_google_account's
\* next selection; with no account configured it runs without one and the
\* instance's google_account stays None.  In every case the instance's
\* google_account is the name of the account used.
C22_AccountUsed ==
  [][\A t \in Threads :
       (pc[t] = "select" /\ pc'[t] = "provision") =>
         LET n == google_account_name[t]
             used == account'[t]
         IN /\ IF GOOGLE_ACCOUNTS = <<>>
               THEN used = NoAccount
               ELSE IF n # None /\ NamedPositions(n) # {}
               THEN \E i \in NamedPositions(n) : used = GOOGLE_ACCOUNTS[i]
               ELSE /\ used = select_google_account(GOOGLE_ACCOUNTS,
                                                    currently_used_account)
                    /\ currently_used_account' = used
            /\ active_instances'[instance[t]].google_account =
                 IF used = NoAccount THEN None ELSE used.name]_vars

\* C22 witness: the argument names account C, which is not configured in
\* [A, B]; the rotation, whose cursor was at A, gave B
C22_Witness ==
  /\ GOOGLE_ACCOUNTS = <<AccountA, AccountB>>
  /\ pc[1] = "provision"
  /\ google_account_name[1] = AccountC.name
  /\ account[1] = AccountB
  /\ currently_used_account = AccountB
  /\ active_instances[1].google_account = AccountB.name

\* C23: the success path of launch_colab_automated runs in this order: the
\* instance gets its Cloudflare URL and status "active" and the registry is
\* saved, with the gate and the keep-alive thread untouched; then
\* is_launching is cleared, with registry and keep-alive thread untouched;
\* then the keep-alive thread of that instance is started, which had none
\* before, and the instance is returned.  A keep-alive thread is started by
\* this last step only, and a started one is never started again.
C23_SuccessOrder ==
  [][/\ \A t \in Threads :
          LET i == instance[t] IN
          /\ (pc[t] = "activate" /\ pc'[t] # "activate") =>
               /\ pc'[t] = "success_release"
               /\ active_instances'[i].status = "active"
               /\ active_instances'[i].cloudflare_url =
                    Endpoint(active_instances[i].id)
               /\ history_file' = save_history(active_instances', now)
               /\ is_launching' = is_launching
               /\ keep_alive[i] = "none" /\ keep_alive'[i] = "none"
          /\ (pc[t] = "success_release" /\ pc'[t] # "success_release") =>
               /\ pc'[t] = "success_thread"
               /\ is_launching' = FALSE
               /\ active_instances' = active_instances
               /\ history_file' = history_file
               /\ keep_alive[i] = "none" /\ keep_alive'[i] = "none"
          /\ (pc[t] = "success_thread" /\ pc'[t] # "success_thread") =>
               /\ pc'[t] \in {"done", "forward"}
               /\ result'[t] = i
               /\ keep_alive[i] = "none" /\ keep_alive'[i] # "none"
               /\ \A j \in Positions \ {i} : keep_alive'[j] = keep_alive[j]
               /\ is_launching' = is_launching
               /\ active_instances' = active_instances
     /\ \A j \in Positions :
          /\ (keep_alive[j] = "none" /\ keep_alive'[j] # "none") =>
               \E t \in Threads : pc[t] = "success_thread" /\ instance[t] = j
          /\ (keep_alive[j] # "none") => keep_alive'[j] # "none"]_vars

\* C23 witness: a /launch request has returned its instance, active, with
\* its endpoint, saved, the gate clear and the keep-alive thread asleep
C23_Witness ==
  \E t \in Threads :
    /\ pc[t] = "done" /\ route[t] = "launch" /\ result[t] # 0
    /\ active_instances[result[t]].status = "active"
    /\ active_instances[result[t]].cloudflare_url =
         Endpoint(active_instances[result[t]].id)
    /\ history_file = save_history(active_instances, now)
    /\ ~is_launching
    /\ keep_alive[result[t]] = "sleep"

\* C24: when launch_colab_automated returns None for an attempt that created
\* an instance, that instance has status "error", not "initializing", the
\* history file holds that status, the gate is cleared and the caller gets
\* None.
C24_FailureLeavesError ==
  [][\A t \in Threads :
       (pc[t] = "release" /\ pc'[t] = "done" /\ instance[t] # 0) =>
         /\ active_instances'[instance[t]].status = "error"
         /\ Len(history_file') >= instance[t]
         /\ history_file'[instance[t]].status = "error"
         /\ is_launching' = FALSE
         /\ result'[t] = 0]_vars

\* C25: whenever no request is in the middle of an operation (the handler of
\* thread 1 has not started or has completed, start-up is over), the history
\* file equals the registry in id, URL, timestamps, status and account; this
\* includes the last_used_at set by find_active_instance and by the proxy
\* routes after a relayed request.
C25_FileFollowsRegistry ==
  (phase = "serving" /\ pc[1] \in {"idle", "done"})
    => history_file = save_history(active_instances, now)

\* instance i is in the success path of its launch, between the assignment of
\* "active" and the start of its keep-alive thread
BeingStarted(i) ==
  \E t \in Threads :
    pc[t] \in {"success_release", "success_thread"} /\ instance[t] = i

\* C26: once start-up is over, every instance of the registry that is
\* "active" and not expired has a running keep-alive thread, the instances
\* main() loaded from the history file included.
C26_ActiveIsSupervised ==
  phase = "serving" =>
    \A i \in 1..Len(active_instances) :
      (active_instances[i].status = "active"
         /\ ~is_expired(active_instances[i], now)
         /\ ~BeingStarted(i))
      => keep_alive[i] = "sleep"

\* C27: a keep_colab_alive iteration whose probe fails (the thread of
\* instance i wakes up and is_active() is false) sets the status to
\* "inactive", never to the "error" of a failed refresh, saves the registry
\* and ends the thread; a thread that has ended never runs an iteration
\* again.
C27_FailedProbe ==
  [][\A i \in Positions :
       /\ (/\ phase = "serving" /\ phase' = "serving"
           /\ keep_alive[i] = "sleep"
           /\ ~is_active(active_instances[i], up)
           /\ \/ keep_alive'[i] # "sleep"
              \/ active_instances'[i].status # active_instances[i].status)
          => /\ active_instances'[i].status = "inactive"
             /\ history_file' = save_history(active_instances', now)
             /\ keep_alive'[i] = "terminated"
       /\ keep_alive[i] = "terminated" => keep_alive'[i] # "sleep"]_vars

\* C27 witness: the backend of an instance went away, the keep-alive thread
\* found out, marked the instance, saved, and ended
C27_Witness ==
  \E i \in 1..Len(active_instances) :
    /\ phase = "serving"
    /\ keep_alive[i] = "terminated"
    /\ active_instances[i].status = "inactive"
    /\ active_instances[i].cloudflare_url \notin up
    /\ ~is_expired(active_instances[i], now)
    /\ history_file = save_history(active_instances, now)

\* C28: when the keep-alive thread of instance i wakes up from its sleep and
\* the instance is expired or no longer "active", the thread ends in that
\* iteration without the probe and without the refresh: it leaves the
\* instance and the history file as they are.
C28_CheckAfterSleep ==
  [][\A i \in Positions :
       (/\ phase = "serving" /\ phase' = "serving"
        /\ keep_alive[i] = "sleep"
        /\ \/ is_expired(active_instances[i], now)
           \/ active_instances[i].status # "active"
        /\ keep_alive'[i] # "sleep")
       => /\ keep_alive'[i] = "terminated"
          /\ active_instances'[i].status = active_instances[i].status
          /\ history_file' = history_file]_vars

(* ------------------------ keep_colab_alive, liveness -------------------- *)
\* an iteration of the keep-alive thread of instance i in which
\* driver.refresh() does not raise
KeepAliveWakes(i) ==
  /\ KeepAliveIteration(i, TRUE)
  /\ active_instances'[i].status # "error"

\* Spec with its scheduling: time goes on (up to the horizon of the model),
\* and a sleeping keep-alive thread is woken up by time.sleep returning;
\* nothing makes the refresh raise
SpecLive ==
  /\ Init /\ [][Next]_vars
  /\ WF_vars(Tick)
  /\ \A i \in Positions : WF_vars(KeepAliveWakes(i))

\* C29: a running keep-alive thread eventually ends, at the latest because
\* its instance gets older than MAX_INSTANCE_AGE_HOURS (stated for the
\* instances created before the last hour of the model's clock, the others
\* do not age in the model); a thread is started only by the success path of
\* the launch of its instance, for an instance that never had one, and one
\* that has ended is never running again.
C29_KeepAliveEnds ==
  /\ \A i \in Positions :
       (keep_alive[i] = "sleep" /\ active_instances[i].created_at < MaxClock)
         ~> (keep_alive[i] # "sleep")
  /\ [][\A i \in Positions :
          /\ keep_alive[i] = "terminated" => keep_alive'[i] # "sleep"
          /\ (keep_alive[i] # "sleep" /\ keep_alive'[i] = "sleep") =>
               /\ keep_alive[i] = "none"
               /\ \E t \in Threads : pc[t] = "success_thread" /\ instance[t] = i]_vars

\* C29 witness: a keep-alive thread has ended for age alone: its instance is
\* still "active", its backend still answers
C29_Witness ==
  \E i \in 1..Len(active_instances) :
    /\ keep_alive[i] = "terminated"
    /\ active_instances[i].status = "active"
    /\ active_instances[i].cloudflare_url \in up
    /\ is_expired(active_instances[i], now)

\* C30: when the relay of a request to the instance it was given fails with
\* a transport error (the handler answers 500 from its `except`), that
\* instance has status "inactive" once the request has completed.
C30_FailedForwardMarks ==
  \A t \in Threads :
    (pc[t] = "done" /\ response[t] = "500 forward failed")
      => active_instances[result[t]].status = "inactive"

(* ---------------- the relay of proxy_speech and proxy_voices ------------ *)
\* headers a client may send (Flask's request.headers: (key, value) pairs)
ClientHeaders ==
  {<<"Host", "proxy.example">>, <<"Authorization", "Bearer k">>,
   <<"Content-Type", "application/json">>}

\* request bodies
ClientData == {"", "{input}"}

\* the proxied routes
Routes == {"/v1/audio/speech", "/v1/audio/voices"}

\* what a backend may answer: any status, with or without a Content-Type
BackendAnswers ==
  {[status_code |-> c, content_type |-> ct, content |-> b] :
     c \in {200, 404, 500}, ct \in {None, "audio/mpeg"}, b \in {"", "bytes"}}

\* a request for a proxied route has come in and get_or_create_instance has
\* returned the one active instance of the registry
InitRelay ==
  /\ GOOGLE_ACCOUNTS = <<>>
  /\ currently_used_account = NoAccount
  /\ active_instances = <<[ColabInstance(1, Endpoint(1), 0) EXCEPT !.status = "active"]>>
  /\ is_launching = FALSE
  /\ history_file = save_history(active_instances, 0)
  /\ now = 0
  /\ up = {Endpoint(1)}
  /\ next_id = 2
  /\ phase = "relay"
  /\ restarts = 0
  /\ pc = [t \in Threads |-> IF t = 1 THEN "forward" ELSE "idle"]
  /\ route = [t \in Threads |-> IF t = 1 THEN "proxy" ELSE None]
  /\ google_account_name = [t \in Threads |-> None]
  /\ instance = [t \in Threads |-> 0]
  /\ new_instance = [t \in Threads |-> NoInstance]
  /\ account = [t \in Threads |-> NoAccount]
  /\ result = [t \in Threads |-> IF t = 1 THEN 1 ELSE 0]
  /\ tried = [t \in Threads |-> <<>>]
  /\ forwards = [t \in Threads |-> <<>>]
  /\ response = [t \in Threads |-> None]
  /\ keep_alive = [i \in Positions |-> IF i = 1 THEN "sleep" ELSE "none"]
  /\ rot_out = <<>>
  /\ pending = [w \in Writers |-> NoWrite]
  /\ relay \in {[NoRelay EXCEPT !.stage = "received", !.route = r,
                                !.headers = h, !.data = d] :
                  r \in Routes, h \in SUBSET ClientHeaders, d \in ClientData}
  /\ probe = NoProbe

\* the try block of proxy_speech / proxy_voices with everything it sends and
\* returns: the requests call, which raises or is answered, update_last_used,
\* the Response
RelayForward ==
  /\ phase = "relay" /\ relay.stage = "received" /\ pc[1] = "forward"
  /\ LET url == active_instances[result[1]].cloudflare_url
         sent == IF relay.route = "/v1/audio/speech"
                 THEN speech_request(url, relay.headers, relay.data)
                 ELSE voices_request(url, relay.headers, relay.data)
     IN /\ forwards' = [forwards EXCEPT ![1] = Append(@, url)]
        /\ \/ /\ relay' = [relay EXCEPT !.stage = "replied", !.sent = sent,
                                        !.raised = TRUE, !.reply = error_response]
              /\ response' = [response EXCEPT ![1] = "500 forward failed"]
              /\ UNCHANGED active_instances
           \/ \E answer \in BackendAnswers :
                /\ relay' = [relay EXCEPT
                               !.stage = "replied", !.sent = sent,
                               !.answer = answer,
                               !.reply = IF relay.route = "/v1/audio/speech"
                                         THEN speech_response(answer)
                                         ELSE voices_response(answer)]
                /\ response' = [response EXCEPT ![1] = "relayed"]
                /\ active_instances' =
                     update_last_used(active_instances, result[1], now)
  /\ pc' = [pc EXCEPT ![1] = "done"]
  /\ UNCHANGED <<GOOGLE_ACCOUNTS, is_launching, currently_used_account,
                 history_file, now, up, next_id, phase, restarts, route,
                 google_account_name, instance, new_instance, account, result,
                 tried, keep_alive, rot_out, pending, probe>>

SpecRelay == InitRelay /\ [][RelayForward]_vars

\* C31: when the backend answers, what was sent to it is the client's
\* body and the client's headers but Host, at the instance's endpoint and the
\* path of the request, and the reply to the client has the backend's status
\* code, content type and body, whatever the status code.
C31_Verbatim ==
  (relay.stage = "replied" /\ ~relay.raised) =>
    /\ relay.sent.url = <<active_instances[result[1]].cloudflare_url, relay.route>>
    /\ relay.sent.headers = {h \in relay.headers : h[1] # "Host"}
    /\ relay.sent.data = relay.data
    /\ relay.reply = relay.answer

\* C32: a request for a proxied route that found no responsive instance
\* calls launch_colab_automated with no account name, and the account of the
\* first attempt of that call is select_google_account's next selection,
\* which moves the rotation cursor.
C32_RouterRotates ==
  [][\A t \in Threads :
       /\ (pc[t] = "history" /\ pc'[t] = "gate") => google_account_name'[t] = None
       /\ (/\ route[t] = "proxy" /\ tried[t] = <<>> /\ GOOGLE_ACCOUNTS # <<>>
           /\ pc[t] = "select" /\ pc'[t] = "provision")
          => /\ account'[t] = select_google_account(GOOGLE_ACCOUNTS,
                                                    currently_used_account)
             /\ currently_used_account' = account'[t]]_vars

(* ------------------------ ColabInstance.is_active ----------------------- *)
\* calls of is_active() on one instance in the model
MaxProbes == 2

\* what requests.get does: it returns a response with some status code, or
\* raises a requests.RequestException (timeout, connection error)
ProbeOutcomes ==
  {[raises |-> None, status_code |-> c] : c \in {200, 204, 404, 500}}
    \cup {[raises |-> e, status_code |-> 0] : e \in {"Timeout", "ConnectionError"}}

\* the cloudflare_url of an instance: None (never set), empty, or an endpoint
ProbedUrls == {None, "", Endpoint(1), Endpoint(2)}

\* an instance with any cloudflare_url, not yet probed
InitProbe ==
  /\ GOOGLE_ACCOUNTS = <<>>
  /\ currently_used_account = NoAccount
  /\ active_instances = <<>>
  /\ is_launching = FALSE
  /\ history_file = <<>>
  /\ now = 0
  /\ up = {}
  /\ next_id = 1
  /\ phase = "probe"
  /\ restarts = 0
  /\ ThreadInit
  /\ keep_alive = [i \in Positions |-> "none"]
  /\ rot_out = <<>>
  /\ pending = [w \in Writers |-> NoWrite]
  /\ relay = NoRelay
  /\ probe \in {[NoProbe EXCEPT !.cloudflare_url = u] : u \in ProbedUrls}

\* one call of instance.is_active(), the network doing whatever it does
IsActive ==
  /\ phase = "probe"
  /\ Len(probe.calls) < MaxProbes
  /\ \E outcome \in ProbeOutcomes :
       LET call == is_active_call(probe.cloudflare_url, outcome)
       IN probe' = [probe EXCEPT !.calls =
                      Append(@, [outcome |-> outcome, sent |-> call.sent,
                                 result |-> call.result])]
  /\ UNCHANGED <<gvars, tvars, keep_alive, rot_out, pending, relay>>

SpecProbe == InitProbe /\ [][IsActive]_vars

\* C33: is_active() returns True only for an instance with a non-empty
\* cloudflare_url whose single GET of the voices path was answered with a
\* success status; when the GET raises (transport failure, timeout) or is
\* answered with a status that is not a success it returns False; a call
\* sends at most one request, to the voices path of the instance.
C33_IsActive ==
  \A k \in 1..Len(probe.calls) :
    LET call == probe.calls[k] IN
    /\ call.result =>
         /\ probe.cloudflare_url \notin {None, ""}
         /\ Len(call.sent) = 1
         /\ call.outcome.raises = None
         /\ call.outcome.status_code \in 200..299
    /\ (call.outcome.raises # None \/ call.outcome.status_code \notin 200..299)
         => ~call.result
    /\ Len(call.sent) <= 1
    /\ \A j \in 1..Len(call.sent) :
         call.sent[j].url = <<probe.cloudflare_url, "/v1/audio/voices">>

\* C33 witness: the same instance probed twice: a timeout, then a 200
C33_Witness ==
  /\ probe.cloudflare_url = Endpoint(1)
  /\ Len(probe.calls) = 2
  /\ probe.calls[1].outcome.raises = "Timeout" /\ ~probe.calls[1].result
  /\ probe.calls[2].outcome.status_code = 200 /\ probe.calls[2].result
  /\ Len(probe.calls[1].sent) = 1 /\ Len(probe.calls[2].sent) = 1

\* C34: while the process runs, the cloudflare_url of an instance that has
\* one stays what it is: no step of a launch, of a keep-alive thread, of
\* find_active_instance or of a relay changes it or clears it, nor does the
\* marking of the instance as "inactive" or "error".
C34_EndpointSetOnce ==
  [][(phase = "serving" /\ phase' = "serving") =>
       \A i \in 1..Len(active_instances) :
         active_instances[i].cloudflare_url # None =>
           /\ Len(active_instances') >= i
           /\ active_instances'[i].cloudflare_url =
                active_instances[i].cloudflare_url]_vars

\* C34 witness: an instance that was used by a relay after its creation and
\* then marked by its keep-alive thread still has the endpoint it was given
C34_Witness ==
  \E i \in 1..Len(active_instances) :
    /\ phase = "serving"
    /\ active_instances[i].status \in {"inactive", "error"}
    /\ keep_alive[i] = "terminated"
    /\ active_instances[i].last_used_at > active_instances[i].created_at
    /\ active_instances[i].cloudflare_url = Endpoint(active_instances[i].id)

\* C35: while the process runs, every instance of the registry stays in it,
\* at its place and with its id, whatever its status becomes: the registry
\* only grows; and main() puts into the registry every instance the history
\* file holds, in the order of the file.
C35_NeverRemoved ==
  [][/\ (phase = "serving" /\ phase' = "serving") =>
          /\ Len(active_instances') >= Len(active_instances)
          /\ \A i \in 1..Len(active_instances) :
               active_instances'[i].id = active_instances[i].id
     /\ (phase = "boot" /\ phase' = "serving") =>
          /\ Len(active_instances') = Len(history_file)
          /\ \A i \in 1..Len(history_file) :
               active_instances'[i].id = history_file[i].id]_vars

\* C35 witness: after a restart the registry holds both instances of the
\* previous run, the retired one and the one that still answers
C35_Witness ==
  /\ phase = "serving" /\ restarts = 1
  /\ Len(active_instances) = 2
  /\ active_instances[1].status = "inactive"
  /\ active_instances[2].status = "active"
  /\ active_instances[1].id # active_instances[2].id

\* thread t is inside an attempt: executing it, or on the exit path that ends
\* with `is_launching = False` and `return None`
InAttempt(t) == Executing(t) \/ pc[t] = "release"

\* C36: is_launching is true exactly while an attempt is executing: true from
\* the gate to the exit of the attempt, whichever exit it takes, and false
\* whenever no attempt is executing.
C36_FlagIffExecuting == is_launching <=> (\E t \in Threads : InAttempt(t))

\* C37: the call launch_colab_automated(next_account) a failover makes
\* always starts its attempt: it passes the gate, whatever other callers do
\* between the release of the gate and that call; it is never turned away by
\* `if is_launching: return None`.
C37_RetryStarts ==
  [][\A t \in Threads :
       (pc[t] = "gate" /\ tried[t] # <<>> /\ pc'[t] # "gate" /\ phase' = "serving")
         => /\ pc'[t] \in {"create", "release"}
            /\ is_launching']_vars

\* C38: a launch_colab_automated call that finds is_launching set returns
\* None and leaves everything as it was: the registry (no new instance, no
\* status or URL changed), the rotation cursor, the history file, the
\* keep-alive threads, and is_launching, which stays true.
C38_RejectedChangesNothing ==
  [][\A t \in Threads :
       (pc[t] = "gate" /\ is_launching /\ pc'[t] # "gate" /\ phase' = "serving")
         => /\ result'[t] = 0
            /\ pc'[t] = "done"
            /\ is_launching'
            /\ UNCHANGED <<active_instances, currently_used_account,
                           history_file, next_id, keep_alive, pending>>]_vars

\* C38 witness: a /launch call has returned None without having created
\* anything while the attempt of another thread, which holds the gate and
\* owns the only instance, goes on
C38_Witness ==
  \E t, u \in Threads :
    /\ t # u
    /\ pc[t] = "done" /\ route[t] = "launch" /\ result[t] = 0 /\ tried[t] = <<>>
    /\ is_launching
    /\ pc[u] = "provision" /\ instance[u] = 1
    /\ Len(active_instances) = 1 /\ next_id = 2
    /\ history_file = save_history(active_instances, now)

====
